---- MODULE Spec2Model ----
(***************************************************************************)
(* NSEMS: time-windowed QR identity tokens, verified by the Authority      *)
(* (Server/controllers/scannerController.js) or, when it cannot be         *)
(* reached, against the scanner device's local cache                       *)
(* (Client/src/services/offlineService.js), with the offline outcomes      *)
(* pushed back to the Authority's scan log later.                          *)
(*                                                                         *)
(* Text is a sequence of symbols.  A symbol is a one-character string      *)
(* ("|", " ", "-", a digit, a letter) or an opaque block standing for a    *)
(* run of characters that the code never looks into (a student id, one     *)
(* half of a hex digest).                                                  *)
(*                                                                         *)
(* SpecVerify applies one verification (validateQR, validateQROffline or   *)
(* validateQRToken) to chosen inputs.  Spec is the scanner pipeline of     *)
(* AdminDashboard.jsx: scans, the fallback to the cache, the offline scan  *)
(* queue and its flushes.  SpecSync is the queue of syncService.js.        *)
(* SpecLive is the pipeline without faults, with the steps that the        *)
(* device and the Authority take on their own under fairness.  SpecOrder   *)
(* runs two overlapping calls of handleQRScan in every interleaving.       *)
(* SpecRefresh runs syncAllStudents put by put, with a reader of the       *)
(* store beside it.                                                        *)
(* SpecCompare runs the comparison of signatures twice on one path.        *)
(* SpecPaths puts one payload before both verifiers, with one record       *)
(* behind them.  SpecHolder is the holder's device: generateQR and the     *)
(* refresh loop of qrService under the mounts of StudentDashboard.         *)
(* SpecLogs is the scan log that syncService.js keeps in localStorage.     *)
(***************************************************************************)
EXTENDS Integers, Sequences, FiniteSets, TLC

\* ------------------------------------------------------------------ bounds
\* Windows that the clock and the presented tokens range over.
MaxWindow == 4
\* The first window of the clock in the pipeline specification.
StartWindow == 3
\* Clock granularity: two clock values per rotation window.
TickMs == 30000
\* Steps of the clock in one run of the pipeline.
MaxTicks == 1
\* Calls of handleQRScan in one run of the pipeline.
MaxScans == 2
\* Calls of handleQRScan that are in progress at once.
MaxPending == 1
\* Calls of syncOfflineScanLogs that are in flight at once.
MaxFlushes == 1
\* The same, in the specification of the flushes without faults.
MaxOverlap == 2
\* Rows of the canonical log.
MaxLog == 2
\* Calls of addToSyncQueue in one run of the sync service.
MaxOps == 2
\* Timers of triggerSync that are pending at once.
MaxTimers == 2
\* Steps of the clock on the holder's device.
MaxHolderTicks == 2
\* Calls of generateQR that are awaiting at once.
MaxCalls == 2
\* Tokens that the holder's device produces in one run.
MaxGenerated == 3
\* Timeouts that scheduleNextRefresh arms in one run.
MaxArmed == 2
\* Calls of logScanLocally in one run.
MaxLogged == 3
\* Calls of syncScanLogs that are awaiting at once.
MaxLogSyncs == 2

\* --------------------------------------------------------- program constants
QR_ROTATION_MS == 60000
\* The delay of the retry after a failed refresh of the token.
RetryDelayMs == 5000
\* `.slice(0, 100)` of logScanLocally.
ScanLogCap == 100
\* A secret key that is absent (undefined, or the empty string).
NoKey == ""
\* `operation.attempts < 3` of triggerSync.
RetryLimit == 3

\* -------------------------------------------------------------------- text
Digits == <<"0", "1", "2", "3", "4", "5", "6", "7", "8", "9">>

IsDigit(c) == \E d \in 1..10 : Digits[d] = c

DigitVal(c) == (CHOOSE d \in 1..10 : Digits[d] = c) - 1

\* String.prototype.trim, leading part.
RECURSIVE TrimStart(_)
TrimStart(s) ==
  IF s # <<>> /\ Head(s) = " " THEN TrimStart(Tail(s)) ELSE s

\* String.prototype.trim, trailing part.
RECURSIVE TrimEnd(_)
TrimEnd(s) ==
  IF s # <<>> /\ s[Len(s)] = " " THEN TrimEnd(SubSeq(s, 1, Len(s) - 1)) ELSE s

Trim(s) == TrimEnd(TrimStart(s))

\* String.prototype.split("|"): always at least one part.
RECURSIVE Split(_)
Split(s) ==
  IF \E i \in 1..Len(s) : s[i] = "|"
  THEN LET i == CHOOSE k \in 1..Len(s) :
                  s[k] = "|" /\ \A j \in 1..(k - 1) : s[j] # "|"
       IN  <<SubSeq(s, 1, i - 1)>> \o Split(SubSeq(s, i + 1, Len(s)))
  ELSE <<s>>

\* A number as JavaScript has it here: an integer or NaN.
NaN == [nan |-> TRUE, val |-> 0]

Num(n) == [nan |-> FALSE, val |-> n]

\* The value of the leading run of digits of s, after acc.
RECURSIVE DigitRun(_, _)
DigitRun(s, acc) ==
  IF s # <<>> /\ IsDigit(Head(s))
  THEN DigitRun(Tail(s), 10 * acc + DigitVal(Head(s)))
  ELSE acc

\* parseInt(s, 10): skip leading white space, an optional sign, then the
\* longest run of digits; whatever follows is ignored; no digit gives NaN.
ParseInt(s) ==
  LET t    == TrimStart(s)
      sgn  == IF t # <<>> /\ Head(t) = "-" THEN -1 ELSE 1
      body == IF t # <<>> /\ Head(t) \in {"-", "+"} THEN Tail(t) ELSE t
  IN  IF body = <<>> \/ ~IsDigit(Head(body))
      THEN NaN
      ELSE Num(sgn * DigitRun(body, 0))

\* The decimal digits of a natural number.
RECURSIVE NatToStr(_)
NatToStr(n) ==
  IF n < 10 THEN <<Digits[n + 1]>>
  ELSE NatToStr(n \div 10) \o <<Digits[(n % 10) + 1]>>

\* `${x}` for a number x.
NumToStr(x) ==
  IF x.nan THEN <<"N", "a", "N">>
  ELSE IF x.val < 0 THEN <<"-">> \o NatToStr(-x.val)
  ELSE NatToStr(x.val)

AbsDiffGt1NoAbs(a, b) ==
  /\ ~a.nan
  /\ ~b.nan
  /\ a.val - b.val > 1

\* Math.abs(a - b) > 1 on numbers; any comparison with NaN is false.
AbsDiffGt1(a, b) ==
  /\ ~a.nan
  /\ ~b.nan
  /\ (a.val - b.val > 1 \/ b.val - a.val > 1)

\* Math.floor(Date.now() / 60000)
CurrentTimeWindow(nowMs) == Num(nowMs \div QR_ROTATION_MS)

\* ------------------------------------------------------------------ tokens
\* HMAC-SHA256(key, msg) in hex.  The digest is opaque: an injective image
\* of (key, msg) of fixed length, here two blocks.
HmacHex(key, msg) ==
  <<ToString(<<"hi", key, msg>>), ToString(<<"lo", key, msg>>)>>

\* `${studentId}|${timeWindow}`
TokenMessage(studentId, timeWindow) ==
  studentId \o <<"|">> \o NumToStr(timeWindow)

\* OfflineService.generateSecureToken.  cryptoOk is whether crypto.subtle is
\* there: without it importKey throws a TypeError inside the try, and so
\* does the digest call of the catch block, which leaves the function by an
\* exception.  With it, importKey and sign of HMAC/SHA-256 succeed for the
\* non-empty key that line 321 guarantees, so the catch block is not entered.
GenerateSecureToken(studentId, timeWindow, secretKey, cryptoOk) ==
  IF secretKey = NoKey \/ ~cryptoOk
  THEN [threw |-> TRUE, hex |-> <<>>]
  ELSE [threw |-> FALSE,
        hex   |-> HmacHex(secretKey, TokenMessage(studentId, timeWindow))]

\* The payload `${studentId}|${timeWindow}|${qrToken}` of generateQR.
QRPayload(studentId, timeWindow, qrToken) ==
  studentId \o <<"|">> \o NumToStr(timeWindow) \o <<"|">> \o qrToken

\* -------------------------------------------------------------- Authority
Ids == {<<"S1">>, <<"S2">>}

Statuses == {"active", "graduated", "suspended"}

\* A Student document, or none.
NoRecord == [exists |-> FALSE, status |-> "", secretKey |-> NoKey]

StudentDoc(status, secretKey) ==
  [exists |-> TRUE, status |-> status, secretKey |-> secretKey]

\* What the response tells about the holder (the student object).
NoStudentInfo ==
  [present |-> FALSE, id |-> <<>>, status |-> "", secretKey |-> NoKey]

\* A response body of the scanner API, as the client reads it.
Body(success, valid, message, student, expiresAt) ==
  [success |-> success, valid |-> valid, message |-> message,
   student |-> student, expiresAt |-> expiresAt]

\* A ScanLog document.  origin and tag belong to the verification: they say
\* which request wrote the row; no code reads them.
LogRow(studentId, timeWindow, status, timestamp, origin, tag) ==
  [studentId |-> studentId, scannedTimeWindow |-> timeWindow,
   validationStatus |-> status, timestamp |-> timestamp,
   origin |-> origin, tag |-> tag]

\* ScanLog.create(...).catch(() => {}): the row, unless the write fails.
Created(row, logOk) == IF logOk THEN <<row>> ELSE <<>>

TimingSafeEqualThrowsMixedEncoding(a, b) == Len(a) # 2 * Len(b)

\* crypto.timingSafeEqual(Buffer.from(a), Buffer.from(b)) throws a RangeError
\* when the two byte lengths differ.
TimingSafeEqualThrows(a, b) == Len(a) # Len(b)

TimingSafeEqualFirstBlock(a, b) == a # <<>> /\ b # <<>> /\ a[1] = b[1]

TimingSafeEqual(a, b) == a = b

\* studentRecord.academicDetails.status !== 'active' (the device's test of
\* studentData.status is the same).
NotActiveForgetsGraduated(status) == status = "suspended"

NotActive(status) == status # "active"

\* The catch block of validateQR.
ServerError ==
  [status |-> 500, faulted |-> TRUE, rows |-> <<>>,
   body |-> Body(FALSE, FALSE, "Server error during validation", NoStudentInfo, 0)]

Reply(status, body, rows) ==
  [status |-> status, faulted |-> FALSE, rows |-> rows, body |-> body]

\* validateQR, from the look-up of the holder on.
ValidateQRLookup(store, nowMs, studentId, timeWindow, token, fault, logOk, tag) ==
  LET rec == IF studentId \in DOMAIN store THEN store[studentId] ELSE NoRecord
      row(st) == LogRow(studentId, timeWindow.val, st, nowMs, "validate", tag)
      expected == HmacHex(rec.secretKey, TokenMessage(studentId, timeWindow))
  IN  IF fault = "findOne" THEN ServerError
      ELSE IF ~rec.exists
      THEN Reply(404, Body(TRUE, FALSE, "Student not found", NoStudentInfo, 0),
                 Created(row("invalid"), logOk))
      ELSE IF NotActive(rec.status)
      THEN Reply(403, Body(TRUE, FALSE, "Student account is not active",
                           NoStudentInfo, 0), <<>>)
      ELSE IF fault = "findById" THEN ServerError
      ELSE IF rec.secretKey = NoKey
      THEN Reply(500, Body(FALSE, FALSE, "Student secret key missing",
                           NoStudentInfo, 0), <<>>)
      ELSE IF TimingSafeEqualThrows(token, expected) THEN ServerError
      ELSE IF fault = "userFindOne" THEN ServerError
      ELSE IF ~TimingSafeEqual(token, expected)
      THEN Reply(403, Body(TRUE, FALSE, "Invalid QR token", NoStudentInfo, 0),
                 Created(row("invalid"), logOk))
      ELSE Reply(200,
                 Body(TRUE, TRUE, "",
                      [present |-> TRUE, id |-> studentId,
                       status |-> rec.status, secretKey |-> NoKey], 0),
                 Created(row("valid"), logOk))

\* validateQR(req, res): the response and the ScanLog rows it creates.
\* fault names the database read that rejects, if one does.
ValidateQR(store, nowMs, qrData, fault, logOk, tag) ==
  IF qrData = <<>>
  THEN Reply(400, Body(FALSE, FALSE, "Invalid QR data", NoStudentInfo, 0), <<>>)
  ELSE
  LET parts == Split(Trim(qrData)) IN
  IF Len(parts) # 3
  THEN Reply(400, Body(FALSE, FALSE,
                       "Invalid QR format (expected: studentId|timeWindow|token)",
                       NoStudentInfo, 0), <<>>)
  ELSE
  LET studentId  == parts[1]
      timeWindow == ParseInt(parts[2])
      token      == parts[3]
  IN
  IF timeWindow.nan \/ timeWindow.val <= 0
  THEN Reply(400, Body(FALSE, FALSE, "Invalid time window", NoStudentInfo, 0), <<>>)
  ELSE IF AbsDiffGt1(CurrentTimeWindow(nowMs), timeWindow)
  THEN Reply(400,
             Body(TRUE, FALSE, "QR code expired", NoStudentInfo,
                  (timeWindow.val + 1) * 60000),
             Created(LogRow(studentId, timeWindow.val, "expired", nowMs,
                            "validate", tag), logOk))
  ELSE ValidateQRLookup(store, nowMs, studentId, timeWindow, token,
                        fault, logOk, tag)

\* ----------------------------------------------------- local verification
\* A record of the "students" object store of the device, or none.
NoEntry == [exists |-> FALSE, status |-> "", secretKey |-> NoKey]

CacheEntry(status, secretKey) ==
  [exists |-> TRUE, status |-> status, secretKey |-> secretKey]

\* token.trim() !== expectedToken
TokenDiffersInLength(token, expectedToken) == Len(Trim(token)) # Len(expectedToken)

TokenDiffers(token, expectedToken) == Trim(token) # expectedToken

\* The catch block of validateQROffline.
OfflineError ==
  [faulted |-> TRUE,
   body |-> Body(FALSE, FALSE, "Offline validation failed", NoStudentInfo, 0)]

OfflineReply(body) == [faulted |-> FALSE, body |-> body]

\* OfflineService.validateQROffline(qrData).  readOk: the IndexedDB read of
\* getStudentData succeeds (it rejects otherwise); cryptoOk as above.
ValidateQROffline(store, nowMs, qrData, readOk, cryptoOk) ==
  LET parts == Split(Trim(qrData)) IN
  IF Len(parts) # 3
  THEN OfflineReply(Body(TRUE, FALSE, "Invalid QR format", NoStudentInfo, 0))
  ELSE
  LET studentId   == parts[1]
      timeWindow  == ParseInt(parts[2])
      token       == parts[3]
      studentData == IF studentId \in DOMAIN store THEN store[studentId]
                     ELSE NoEntry
      expected    == GenerateSecureToken(studentId, timeWindow,
                                         studentData.secretKey, cryptoOk)
  IN
  IF AbsDiffGt1(CurrentTimeWindow(nowMs), timeWindow)
  THEN OfflineReply(Body(TRUE, FALSE, "QR code expired", NoStudentInfo, 0))
  ELSE IF ~readOk THEN OfflineError
  ELSE IF ~studentData.exists
  THEN OfflineReply(Body(TRUE, FALSE, "Student not found in offline database",
                         NoStudentInfo, 0))
  ELSE IF NotActive(studentData.status)
  THEN OfflineReply(Body(TRUE, FALSE, "Student account is not active",
                         NoStudentInfo, 0))
  ELSE IF studentData.secretKey = NoKey
  THEN OfflineReply(Body(FALSE, FALSE, "Offline data incomplete (missing key)",
                         NoStudentInfo, 0))
  ELSE IF expected.threw THEN OfflineError
  ELSE IF TokenDiffers(token, expected.hex)
  THEN OfflineReply(Body(TRUE, FALSE, "Invalid QR token", NoStudentInfo, 0))
  ELSE OfflineReply(Body(TRUE, TRUE, "",
                         [present |-> TRUE, id |-> studentId,
                          status |-> studentData.status, secretKey |-> NoKey], 0))

\* ------------------------------------------------------------ the Verifier
\* No validation result (validationResult = null).
NoResult == Body(FALSE, FALSE, "", NoStudentInfo, 0)

\* message.toLowerCase().includes("expired"), over the messages there are.
IncludesExpired(message) == message = "QR code expired"

\* Classify, with a result that reports no success shown as a system error
\* of its own instead of being counted with the invalid ones.
ClassifyFaultApart(validationResult) ==
  IF ~validationResult.success /\ validationResult.message # "" THEN "error"
  ELSE IF validationResult.valid THEN "verified"
  ELSE IF validationResult.message = "QR code expired" THEN "expired"
  ELSE "invalid"

\* handleQRScan, lines 377-403: what the scan is shown and counted as.
Classify(validationResult) ==
  IF validationResult.success /\ validationResult.valid THEN "verified"
  ELSE IF IncludesExpired(validationResult.message) THEN "expired"
  ELSE "invalid"

\* String.prototype.replace(/\s+/g, ""): every white-space symbol removed.
RECURSIVE RemoveWhitespace(_)
RemoveWhitespace(s) ==
  IF s = <<>> THEN <<>>
  ELSE IF Head(s) = " " THEN RemoveWhitespace(Tail(s))
  ELSE <<Head(s)>> \o RemoveWhitespace(Tail(s))

TokenResult(valid, reason, type, rows) ==
  [valid |-> valid, reason |-> reason, type |-> type, rows |-> rows]

\* validateQRToken(qrContent) of scannerService.js, currentTimeWindow left
\* null.  net: whether the fetch of /api/scanner/validate gets an answer.
ValidateQRToken(store, nowMs, qrContent, net, fault, logOk) ==
  LET cleaned == RemoveWhitespace(Trim(qrContent))
      parts   == Split(cleaned)
  IN
  IF Len(parts) # 3
  THEN TokenResult(FALSE, "Invalid QR format (expected: studentId|timeWindow|token)",
                   "format", <<>>)
  ELSE
  LET timeWindow == ParseInt(parts[2])
      reply      == ValidateQR(store, nowMs, cleaned, fault, logOk, 0)
  IN
  IF AbsDiffGt1(CurrentTimeWindow(nowMs), timeWindow)
  THEN TokenResult(FALSE, "QR code expired", "expired", <<>>)
  ELSE IF net # "ok"
  THEN TokenResult(FALSE, "Offline mode - server unreachable", "offline", <<>>)
  ELSE IF reply.status # 200
  THEN TokenResult(FALSE, reply.body.message, "server", reply.rows)
  ELSE TokenResult(reply.body.valid, "", "", reply.rows)

\* ------------------------------------------------------------------- state
VARIABLES
  now,        \* Date.now(), in ms
  online,     \* navigator.onLine of the scanner device
  students,   \* the Authority's Student collection: id -> document
  scanLogs,   \* the Authority's ScanLog collection (the canonical log)
  cache,      \* the device's "students" object store: id -> record
  probe,      \* one verification applied to chosen inputs
  scans,      \* the calls of handleQRScan, in the order they were made
  lastScanned,       \* lastScannedQR and lastScanTime
  offlineScanQueue,  \* localStorage "offlineScanQueue"
  flushes,    \* the calls of syncOfflineScanLogs that are in flight
  uiSyncing,  \* isSyncing of AdminDashboard
  syncQueue,  \* syncQueue of syncService.js
  savedQueue, \* localStorage "syncQueue"
  isSyncing,  \* isSyncing of syncService.js
  syncRun,    \* the call of triggerSync that is in its loop
  syncTimers, \* pending setTimeout(triggerSync, 5000)
  pushLog,    \* per operation added: the pushes made, failed, failed offline, ok
  refresh,    \* the call of OfflineService.syncAllStudents that is in its loop
  got,        \* what the last getStudentData resolved with
  scanHistory, \* scanHistory of AdminDashboard, the newest scan first
  compare,    \* two runs of the signature comparison, side by side
  currentQR,  \* currentQR of qrService
  refreshTimer, \* refreshTimer of qrService: 0 for null, or a timer's id
  timers,     \* the timeouts of scheduleNextRefresh that are armed
  timerSeq,   \* the ids that setTimeout has handed out
  calls,      \* the calls of generateQR that are awaiting
  generated,  \* the tokens that generateQR has produced, in order
  mounted,    \* StudentDashboard is mounted
  stopped,    \* stopQRRefresh has returned, startQRRefresh not called since
  localScanLogs, \* localStorage 'scanLogs', the newest first
  logSyncs,   \* the calls of syncScanLogs that are awaiting the server
  answered,   \* the entries of the requests that the server answered with ok
  logged      \* the calls of logScanLocally so far

vars == <<now, online, students, scanLogs, cache, probe, scans, lastScanned,
          offlineScanQueue, flushes, uiSyncing, syncQueue, savedQueue,
          isSyncing, syncRun, syncTimers, pushLog, refresh, got,
          scanHistory, compare, currentQR, refreshTimer, timers, timerSeq,
          calls, generated, mounted, stopped, localScanLogs, logSyncs,
          answered, logged>>

\* The state of syncService.js.
syncVars == <<syncQueue, savedQueue, isSyncing, syncRun, syncTimers, pushLog>>

\* What lies beside the scanner pipeline, the sync service and the refresh.
holderVars ==
  <<currentQR, refreshTimer, timers, timerSeq, calls, generated, mounted,
    stopped>>

localLogVars == <<localScanLogs, logSyncs, answered, logged>>

sideVars == <<compare, holderVars, localLogVars>>

\* The bulk refresh of the cache and its reader.
refreshVars == <<refresh, got>>

\* What the probes leave alone.
deviceVars ==
  <<scans, lastScanned, scanHistory, offlineScanQueue, flushes, uiSyncing>>

\* --------------------------------------------------------------- the inputs
Keys == {"K1", "K2"}

\* The window field of a payload.
WindowFields ==
  {NatToStr(w) : w \in 0..(MaxWindow + 1)}
    \cup {<<"-", "1">>, <<"x">>, NatToStr(StartWindow) \o <<"x">>}

\* The signature field of a payload for identifier id and window field wf.
SignatureFields(id, wf) ==
  LET w       == ParseInt(wf)
      good(k) == HmacHex(k, TokenMessage(id, w))
      later   == HmacHex("K1", TokenMessage(id, Num(w.val + 1)))
  IN  {good(k) : k \in Keys}
        \cup {later,
              <<good("K1")[1], good("K2")[2]>>,
              <<good("K1")[1]>>,
              <<" ">> \o good("K1"),
              <<>>}

\* Payloads of three fields.
TokenPayloads ==
  UNION {UNION {{id \o <<"|">> \o wf \o <<"|">> \o sf :
                   sf \in SignatureFields(id, wf)} : wf \in WindowFields} :
         id \in Ids}

\* Payloads that do not have three fields.
MalformedPayloads ==
  {<<>>, <<" ">>, <<"S1", "|", "2">>, <<"S1", "|", "2", "|", "a", "|", "b">>}

ProbePayloads == TokenPayloads \cup MalformedPayloads

DbFaults == {"none", "findOne", "findById", "userFindOne"}

\* The Authority's collection: S1 enrolled or not, S2 never enrolled.
StudentStores ==
  {[id \in Ids |-> IF id = <<"S1">> THEN d ELSE NoRecord] :
     d \in {NoRecord} \cup {StudentDoc(st, k) : st \in Statuses, k \in {"K1", NoKey}}}

\* The device's store: a record for S1 or not, none for S2.
CacheStores ==
  {[id \in Ids |-> IF id = <<"S1">> THEN e ELSE NoEntry] :
     e \in {NoEntry} \cup {CacheEntry(st, k) : st \in Statuses, k \in Keys \cup {NoKey}}}

ProbeClock ==
  {w * QR_ROTATION_MS + off : w \in StartWindow..(StartWindow + 1), off \in {0, TickMs}}

\* No call of triggerSync is in its loop.
NoRun == [pc |-> "idle", idx |-> 0, failedOperations |-> <<>>]

\* No call of syncAllStudents is in its loop.  old is the store when the
\* last call began, new what the Authority exported to it; no code reads them.
NoRefresh ==
  [pc |-> "idle", students |-> <<>>, old |-> [id \in Ids |-> NoEntry],
   new |-> [id \in Ids |-> NoEntry]]

\* getStudentData has not been called.
NoGet ==
  [pc |-> "none", studentId |-> <<>>, result |-> NoEntry, old |-> NoEntry,
   new |-> NoEntry]

\* No comparison has run.
NoCompare ==
  [path |-> "none", expectedToken |-> <<>>, token |-> <<<<>>, <<>>>>,
   steps |-> <<0, 0>>, done |-> <<FALSE, FALSE>>]

\* `let currentQR = null`
NoQR ==
  [success |-> FALSE, studentId |-> <<>>, timeWindow |-> 0, token |-> <<>>,
   expiresAt |-> 0, timestamp |-> 0]

\* qrService as the module leaves it, and no dashboard mounted.
HolderAtRest ==
  /\ currentQR = NoQR
  /\ refreshTimer = 0
  /\ timers = {}
  /\ timerSeq = 0
  /\ calls = <<>>
  /\ generated = <<>>
  /\ mounted = FALSE
  /\ stopped = FALSE

\* No scan logged in localStorage, no call of syncScanLogs.
LocalLogsAtRest ==
  /\ localScanLogs = <<>>
  /\ logSyncs = <<>>
  /\ answered = {}
  /\ logged = 0

NoProbe ==
  [path |-> "none", qrData |-> <<>>, fault |-> "none", logOk |-> TRUE,
   readOk |-> TRUE, cryptoOk |-> TRUE, net |-> "ok",
   done |-> FALSE, body |-> NoResult, faulted |-> FALSE, type |-> ""]

\* ---------------------------------------------- verification, path by path
InitVerify ==
  /\ now \in ProbeClock
  /\ online = TRUE
  /\ scanLogs = <<>>
  /\ scans = <<>>
  /\ lastScanned = [set |-> FALSE, qr |-> <<>>, time |-> 0]
  /\ offlineScanQueue = <<>>
  /\ flushes = <<>>
  /\ uiSyncing = FALSE
  /\ syncQueue = <<>>
  /\ savedQueue = <<>>
  /\ isSyncing = FALSE
  /\ syncRun = NoRun
  /\ syncTimers = 0
  /\ pushLog = <<>>
  /\ refresh = NoRefresh
  /\ got = NoGet
  /\ scanHistory = <<>>
  /\ compare = NoCompare
  /\ HolderAtRest
  /\ LocalLogsAtRest
  /\ \E path \in {"authority", "local", "validateQRToken"}, qr \in ProbePayloads :
       /\ \/ /\ path = "authority"
             /\ students \in StudentStores
             /\ cache = [id \in Ids |-> NoEntry]
             /\ \E f \in DbFaults, l \in BOOLEAN :
                  probe = [NoProbe EXCEPT !.path = path, !.qrData = qr,
                                          !.fault = f, !.logOk = l]
          \/ /\ path = "local"
             /\ students = [id \in Ids |-> NoRecord]
             /\ cache \in CacheStores
             /\ \E r \in BOOLEAN, c \in BOOLEAN :
                  probe = [NoProbe EXCEPT !.path = path, !.qrData = qr,
                                          !.readOk = r, !.cryptoOk = c]
          \/ /\ path = "validateQRToken"
             /\ students \in {s \in StudentStores : s[<<"S1">>].secretKey # NoKey}
             /\ cache \in {c \in CacheStores :
                             c[<<"S1">>] = CacheEntry("active", "K1")}
             /\ \E n \in {"ok", "unreachable"} :
                  probe = [NoProbe EXCEPT !.path = path, !.qrData = qr, !.net = n]

\* The Authority answers the probe's request (validateQR).
ProbeAuthority ==
  /\ probe.path = "authority" /\ ~probe.done
  /\ LET r == ValidateQR(students, now, probe.qrData, probe.fault, probe.logOk, 0)
     IN  /\ scanLogs' = scanLogs \o r.rows
         /\ probe' = [probe EXCEPT !.done = TRUE, !.body = r.body,
                                   !.faulted = r.faulted]
  /\ UNCHANGED <<sideVars, refreshVars, syncVars, now, online, students, cache,
                 deviceVars>>

\* The device verifies the probe against its cache (validateQROffline).
ProbeLocalEvictsOnFailure ==
  /\ probe.path = "local" /\ ~probe.done
  /\ LET r == ValidateQROffline(cache, now, probe.qrData, probe.readOk, probe.cryptoOk)
     IN  /\ probe' = [probe EXCEPT !.done = TRUE, !.body = r.body,
                                  !.faulted = r.faulted]
         /\ cache' = IF r.body.valid THEN cache
                     ELSE [id \in Ids |-> NoEntry]
  /\ UNCHANGED <<sideVars, refreshVars, syncVars, now, online, students, scanLogs,
                 deviceVars>>

ProbeLocal ==
  /\ probe.path = "local" /\ ~probe.done
  /\ LET r == ValidateQROffline(cache, now, probe.qrData, probe.readOk, probe.cryptoOk)
     IN  probe' = [probe EXCEPT !.done = TRUE, !.body = r.body,
                               !.faulted = r.faulted]
  /\ UNCHANGED <<sideVars, refreshVars, syncVars, now, online, students, scanLogs,
                 cache, deviceVars>>

\* scannerService.validateQRToken runs on the probe.
ProbeValidateQRToken ==
  /\ probe.path = "validateQRToken" /\ ~probe.done
  /\ LET r == ValidateQRToken(students, now, probe.qrData, probe.net,
                              probe.fault, probe.logOk)
     IN  /\ scanLogs' = scanLogs \o r.rows
         /\ probe' = [probe EXCEPT !.done = TRUE, !.type = r.type,
                         !.body = Body(TRUE, r.valid, r.reason, NoStudentInfo, 0)]
  /\ UNCHANGED <<sideVars, refreshVars, syncVars, now, online, students, cache,
                 deviceVars>>

NextVerify == ProbeAuthority \/ ProbeLocal \/ ProbeValidateQRToken

SpecVerify == InitVerify /\ [][NextVerify]_vars

\* ------------------------------------------------------------ the pipeline
\* The Authority's collection while the pipeline runs.
PipelineStudents ==
  [id \in Ids |-> IF id = <<"S1">> THEN StudentDoc("active", "K1")
                  ELSE StudentDoc("suspended", "K2")]

\* GET /api/students/sync-all: every student with its secret and status.
ExportOf(store) ==
  [id \in DOMAIN store |->
     IF store[id].exists THEN CacheEntry(store[id].status, store[id].secretKey)
     ELSE NoEntry]

\* The payloads that the camera reads while the pipeline runs.
ScanPayloads ==
  LET w        == Num(StartWindow)
      old      == Num(StartWindow - 2)
      good(id) == HmacHex("K1", TokenMessage(id, w))
  IN  {QRPayload(<<"S1">>, w, good(<<"S1">>)),
       QRPayload(<<"S1">>, old, HmacHex("K1", TokenMessage(<<"S1">>, old))),
       QRPayload(<<"S1">>, w, <<good(<<"S1">>)[1]>>),
       QRPayload(<<"S2">>, w, HmacHex("K2", TokenMessage(<<"S2">>, w))),
       <<"S1", "|", "2">>}

\* One call of handleQRScan.  at is `now` of line 315; reply is the response
\* that the Authority sent; result is validationResult; source says who
\* produced it; outcome is what the scan was shown and counted as.
\* completed numbers the scans in the order in which their validationResult
\* was settled, superseded says that a later call with the same code was
\* dropped by the debounce while this one was in progress; no code reads
\* them.
ScanRecord(pc, qrData, at) ==
  [pc |-> pc, qrData |-> qrData, at |-> at, reply |-> NoResult,
   result |-> NoResult, source |-> "none", outcome |-> "",
   faulted |-> FALSE, recorded |-> FALSE, queued |-> FALSE, completed |-> 0,
   superseded |-> FALSE]

Init ==
  /\ now = StartWindow * QR_ROTATION_MS
  /\ online = TRUE
  /\ students = PipelineStudents
  /\ scanLogs = <<>>
  /\ cache = ExportOf(PipelineStudents)
  /\ probe = NoProbe
  /\ scans = <<>>
  /\ lastScanned = [set |-> FALSE, qr |-> <<>>, time |-> 0]
  /\ offlineScanQueue = <<>>
  /\ flushes = <<>>
  /\ uiSyncing = FALSE
  /\ syncQueue = <<>>
  /\ savedQueue = <<>>
  /\ isSyncing = FALSE
  /\ syncRun = NoRun
  /\ syncTimers = 0
  /\ pushLog = <<>>
  /\ refresh = NoRefresh
  /\ got = NoGet
  /\ scanHistory = <<>>
  /\ compare = NoCompare
  /\ HolderAtRest
  /\ LocalLogsAtRest

\* Time passes.
Tick ==
  /\ now + TickMs <= StartWindow * QR_ROTATION_MS + MaxTicks * TickMs
  /\ now' = now + TickMs
  /\ UNCHANGED <<sideVars, refreshVars, syncVars, online, students, scanLogs, cache,
                 probe, deviceVars>>

RemoveAt(seq, j) == SubSeq(seq, 1, j - 1) \o SubSeq(seq, j + 1, Len(seq))

\* The calls of handleQRScan that have not returned.
InProgress == {i \in 1..Len(scans) : scans[i].pc \notin {"done", "ignored"}}

\* Line 316 of handleQRScan: the same code as the last one, less than 2 s
\* after it.
Debounced(qrData) ==
  lastScanned.set /\ lastScanned.qr = qrData /\ now - lastScanned.time < 2000

\* handleQRScan(qrData) up to its first await: the debounce, the format
\* check and the choice of the path.  A call that the debounce drops
\* returns at once and is not in progress.
HandleQRScan(qrData) ==
  /\ Len(scans) < MaxScans
  /\ \/ Debounced(qrData)
     \/ Cardinality(InProgress) < MaxPending
  /\ IF Debounced(qrData)
     THEN /\ scans' = Append([i \in 1..Len(scans) |->
                               IF i \in InProgress /\ scans[i].qrData = qrData
                               THEN [scans[i] EXCEPT !.superseded = TRUE]
                               ELSE scans[i]],
                            ScanRecord("ignored", qrData, now))
          /\ UNCHANGED lastScanned
     ELSE /\ lastScanned' = [set |-> TRUE, qr |-> qrData, time |-> now]
          /\ IF Len(Split(Trim(qrData))) # 3
             THEN scans' = Append(scans,
                      [ScanRecord("done", qrData, now) EXCEPT
                         !.result = Body(FALSE, FALSE, "Invalid QR format",
                                         NoStudentInfo, 0),
                         !.outcome = "invalid"])
             ELSE IF ~online
             THEN scans' = Append(scans, ScanRecord("offline", qrData, now))
             ELSE scans' = Append(scans, ScanRecord("request", qrData, now))
  /\ UNCHANGED <<sideVars, refreshVars, syncVars, now, online, students, scanLogs,
                 cache, probe,
                 scanHistory, offlineScanQueue, flushes, uiSyncing>>

\* The Authority handles the request of scan i (validateQR).
ServerValidate(i, fault, logOk) ==
  /\ scans[i].pc = "request"
  /\ LET r == ValidateQR(students, now, scans[i].qrData, fault, logOk, i)
     IN  /\ Len(scanLogs) + Len(r.rows) <= MaxLog
         /\ scanLogs' = scanLogs \o r.rows
         /\ scans' = [scans EXCEPT ![i].pc = "response", ![i].reply = r.body,
                                   ![i].faulted = r.faulted]
  /\ UNCHANGED <<sideVars, refreshVars, syncVars, now, online, students, cache, probe,
                 lastScanned, scanHistory,
                 offlineScanQueue, flushes, uiSyncing>>

\* The fetch of scan i rejects: the request never reached the Authority, or
\* its response never reached the device.
FetchFails(i) ==
  /\ scans[i].pc \in {"request", "response"}
  /\ scans' = [scans EXCEPT ![i].pc = "fallback", ![i].faulted = FALSE]
  /\ UNCHANGED <<sideVars, refreshVars, syncVars, now, online, students, scanLogs,
                 cache, probe, lastScanned, scanHistory,
                 offlineScanQueue, flushes, uiSyncing>>

\* A put that writes the status and leaves the secret of an existing record.
StoreStudentDataKeepsSecret(store, studentId, status, secretKey) ==
  IF studentId \in DOMAIN store
  THEN [store EXCEPT ![studentId] =
          CacheEntry(status, IF @.exists THEN @.secretKey ELSE secretKey)]
  ELSE store

\* OfflineService.storeStudentData: { ...existing, ...studentData } is put;
\* a field of studentData that is undefined replaces the cached one.
StoreStudentData(store, studentId, status, secretKey) ==
  IF studentId \in DOMAIN store
  THEN [store EXCEPT ![studentId] = CacheEntry(status, secretKey)]
  ELSE store

\* How many scans have their validationResult.
CompletedCount ==
  Cardinality({k \in 1..Len(scans) : scans[k].completed > 0})

\* Line 376 of handleQRScan is reached: validationResult is settled.  image
\* says whether student.imageLink is set; without it a valid scan awaits
\* getStudentImage before it is shown.
Settled(scan, validationResult, source, image) ==
  [scan EXCEPT !.pc = IF validationResult.success /\ validationResult.valid
                         /\ ~image
                      THEN "image" ELSE "settled",
               !.reply = NoResult,
               !.result = validationResult, !.source = source,
               !.outcome = Classify(validationResult),
               !.completed = CompletedCount + 1]

\* A history that keeps the newest scan only.
AddToHistoryKeepsNewest(history, studentId, status, scan) ==
  <<[studentId |-> studentId, status |-> status, scan |-> scan]>>

\* addToHistory(scan): [scan, ...prev].slice(0, 50).  scan is the call that
\* added the entry; no code reads it.
AddToHistory(history, studentId, status, scan) ==
  SubSeq(<<[studentId |-> studentId, status |-> status, scan |-> scan]>>
           \o history, 1, IF Len(history) + 1 < 50 THEN Len(history) + 1 ELSE 50)

\* Lines 377-403 of handleQRScan: the scan is shown and put in the history.
Finished(scan) == [scan EXCEPT !.pc = "done", !.recorded = TRUE]

\* The history after the call that settled scan i as next: a scan that does
\* not await the image is put in the history at once.
HistoryAfter(i, next) ==
  IF next.pc = "image" THEN scanHistory
  ELSE AddToHistory(scanHistory,
                    IF next.outcome = "verified" THEN next.result.student.id
                    ELSE Split(Trim(next.qrData))[1],
                    next.outcome, i)

\* The scan record after the call that settled it as next.
ScanAfter(next) == IF next.pc = "image" THEN next ELSE Finished(next)

\* The response of scan i arrives.  shape: "json" is the body that the
\* Authority sent, "noSuccess" is JSON without a success field, "garbled"
\* makes res.json() throw.
ResponseArrives(i, shape, image) ==
  /\ scans[i].pc = "response"
  /\ IF shape = "garbled"
     THEN /\ scans' = [scans EXCEPT ![i].pc = "fallback", ![i].faulted = FALSE]
          /\ UNCHANGED <<cache, scanHistory>>
     ELSE IF shape = "noSuccess"
     THEN LET next == Settled(scans[i], NoResult, "remote", image) IN
          /\ scans' = [scans EXCEPT ![i] = ScanAfter(next)]
          /\ scanHistory' = HistoryAfter(i, next)
          /\ UNCHANGED cache
     ELSE LET serverData == scans[i].reply
              next == Settled(scans[i], serverData, "remote", image) IN
          /\ scans' = [scans EXCEPT ![i] = ScanAfter(next)]
          /\ scanHistory' = HistoryAfter(i, next)
          /\ cache' = IF serverData.valid /\ serverData.student.present
                      THEN StoreStudentData(cache, serverData.student.id,
                                            serverData.student.status,
                                            serverData.student.secretKey)
                      ELSE cache
  /\ UNCHANGED <<sideVars, refreshVars, syncVars, now, online, students, scanLogs, probe,
                 lastScanned, offlineScanQueue, flushes, uiSyncing>>

\* An entry of the offline scan queue, as handleQRScan builds it.  scan is
\* the call that queued it; no code reads it.
QueueEntry(studentId, status, timestamp, scan) ==
  [studentId |-> studentId, status |-> status, timestamp |-> timestamp,
   scan |-> scan]

\* Scan i is verified against the cache (validateQROffline), on the offline
\* path or after the fetch failed, and a result that is not valid is queued.
LocalValidate(i, readOk, cryptoOk, image) ==
  /\ scans[i].pc \in {"offline", "fallback"}
  /\ LET r == ValidateQROffline(cache, now, scans[i].qrData, readOk, cryptoOk)
         studentId == Split(Trim(scans[i].qrData))[1]
         isExp == IncludesExpired(r.body.message)
         next == [Settled(scans[i], r.body, "local", image) EXCEPT
                    !.faulted = r.faulted, !.queued = ~r.body.valid]
     IN  /\ scans' = [scans EXCEPT ![i] = ScanAfter(next)]
         /\ scanHistory' = HistoryAfter(i, next)
         /\ offlineScanQueue' =
              IF ~r.body.valid
              THEN Append(offlineScanQueue,
                          QueueEntry(studentId,
                                     IF isExp THEN "expired" ELSE "invalid",
                                     scans[i].at, i))
              ELSE offlineScanQueue
  /\ UNCHANGED <<sideVars, refreshVars, syncVars, now, online, students, scanLogs, cache,
                 probe, lastScanned, flushes, uiSyncing>>

\* getStudentImage resolves for scan i: the scan is shown and put in the
\* history.
GetStudentImageResolves(i) ==
  /\ scans[i].pc = "image"
  /\ scans' = [scans EXCEPT ![i] = Finished(scans[i])]
  /\ scanHistory' = AddToHistory(scanHistory, scans[i].result.student.id,
                                 "verified", i)
  /\ UNCHANGED <<sideVars, refreshVars, syncVars, now, online, students, scanLogs, cache,
                 probe, lastScanned, offlineScanQueue, flushes, uiSyncing>>

\* syncOfflineScanLogs up to its fetch: the queue is read and posted.
StartedFlush(trigger) ==
  IF offlineScanQueue = <<>> THEN flushes
  ELSE Append(flushes, [pc |-> "request", logs |-> offlineScanQueue,
                        trigger |-> trigger, synced |-> 0])

\* ------------------------------------------------------- syncService.js
\* What addToSyncQueue is called with.
SyncOperations == {[endpoint |-> "/api/scanner/sync-logs", method |-> "POST"]}

\* An entry of syncQueue.  id numbers the calls of addToSyncQueue; no code
\* reads it.
SyncEntry(id, operation, timestamp) ==
  [id |-> id, operation |-> operation, timestamp |-> timestamp, attempts |-> 0]

\* isSyncing, the loop and the timers, as triggerSync reads and writes them.
SyncState == [isSyncing |-> isSyncing, syncRun |-> syncRun, syncTimers |-> syncTimers]

\* triggerSync() up to its first await, called with the queue as it is and
\* navigator.onLine as onLine.  Offline, the finally clause re-arms the timer.
TriggerSync(queue, st, onLine) ==
  IF st.isSyncing \/ queue = <<>> THEN st
  ELSE IF ~onLine THEN [st EXCEPT !.syncTimers = @ + 1]
  ELSE [st EXCEPT !.isSyncing = TRUE,
                  !.syncRun = [pc |-> "fetch", idx |-> 1,
                               failedOperations |-> <<>>]]

\* addToSyncQueue(operation): push, saveSyncQueue, triggerSync.
AddToSyncQueue(operation) ==
  /\ Len(pushLog) < MaxOps
  /\ LET q  == Append(syncQueue, SyncEntry(Len(pushLog) + 1, operation, now))
         st == TriggerSync(q, SyncState, online)
     IN  /\ st.syncTimers <= MaxTimers
         /\ syncQueue' = q
         /\ savedQueue' = q
         /\ isSyncing' = st.isSyncing
         /\ syncRun' = st.syncRun
         /\ syncTimers' = st.syncTimers
  /\ pushLog' = Append(pushLog, [sent |-> 0, failed |-> 0, offline |-> 0,
                                 ok |-> FALSE])
  /\ UNCHANGED <<sideVars, refreshVars, now, online, students, scanLogs, cache, probe,
                 deviceVars>>

\* A timer set by triggerSync fires and calls triggerSync.
SyncTimerFires ==
  /\ syncTimers > 0
  /\ LET st == TriggerSync(syncQueue, [SyncState EXCEPT !.syncTimers = @ - 1],
                           online)
     IN  /\ st.syncTimers <= MaxTimers
         /\ isSyncing' = st.isSyncing
         /\ syncRun' = st.syncRun
         /\ syncTimers' = st.syncTimers
  /\ UNCHANGED <<sideVars, refreshVars, syncQueue, savedQueue, pushLog, now, online,
                 students, scanLogs, cache, probe, deviceVars>>

KeptOnceMore(operation, failedOperations) ==
  IF operation.attempts <= RetryLimit THEN Append(failedOperations, operation)
  ELSE failedOperations

\* Lines 79-82 and 86-89 of triggerSync, after operation.attempts++.
Kept(operation, failedOperations) ==
  IF operation.attempts < RetryLimit THEN Append(failedOperations, operation)
  ELSE failedOperations

\* The fetch of the loop of triggerSync settles for the operation at
\* syncRun.idx: "ok" is a response that is ok, "notOk" one that is not,
\* "rejected" a fetch that throws.  After the last operation the loop ends:
\* syncQueue = failedOperations, saveSyncQueue, and the finally clause.
SyncPushSettles(outcome) ==
  /\ syncRun.pc = "fetch"
  /\ LET i       == syncRun.idx
         ok      == outcome = "ok"
         op      == IF ok THEN syncQueue[i]
                    ELSE [syncQueue[i] EXCEPT !.attempts = @ + 1]
         failed  == IF ok THEN syncRun.failedOperations
                    ELSE Kept(op, syncRun.failedOperations)
     IN  /\ pushLog' = [pushLog EXCEPT ![op.id] =
                          [sent |-> @.sent + 1,
                           failed |-> @.failed + (IF ok THEN 0 ELSE 1),
                           offline |-> @.offline +
                                         (IF ~ok /\ ~online THEN 1 ELSE 0),
                           ok |-> @.ok \/ ok]]
         /\ IF i < Len(syncQueue)
            THEN /\ syncQueue' = [syncQueue EXCEPT ![i] = op]
                 /\ syncRun' = [syncRun EXCEPT !.idx = i + 1,
                                               !.failedOperations = failed]
                 /\ UNCHANGED <<savedQueue, isSyncing, syncTimers>>
            ELSE /\ syncTimers + (IF failed # <<>> THEN 1 ELSE 0) <= MaxTimers
                 /\ syncQueue' = failed
                 /\ savedQueue' = failed
                 /\ isSyncing' = FALSE
                 /\ syncRun' = NoRun
                 /\ syncTimers' = syncTimers + (IF failed # <<>> THEN 1 ELSE 0)
  /\ UNCHANGED <<sideVars, refreshVars, now, online, students, scanLogs, cache, probe,
                 deviceVars>>

\* The device goes online: the "online" handler of AdminDashboard flushes
\* the offline scan queue and the one of syncService.js calls triggerSync.
\* limit bounds the flushes in flight.
OnlineEvent(limit) ==
  /\ ~online
  /\ Len(flushes) < limit
  /\ online' = TRUE
  /\ flushes' = StartedFlush("online")
  /\ LET st == TriggerSync(syncQueue, SyncState, TRUE)
     IN  /\ isSyncing' = st.isSyncing
         /\ syncRun' = st.syncRun
         /\ syncTimers' = st.syncTimers
  /\ UNCHANGED <<sideVars, refreshVars, syncQueue, savedQueue, pushLog, now, students,
                 scanLogs, cache, probe, scans, lastScanned, scanHistory, offlineScanQueue,
                 uiSyncing>>

GoOnline == OnlineEvent(MaxFlushes)

GoOffline ==
  /\ online
  /\ online' = FALSE
  /\ UNCHANGED <<sideVars, refreshVars, syncVars, now, students, scanLogs, cache, probe,
                 deviceVars>>

\* OfflineService.syncAllStudents, when its request is answered: every
\* exported student is put with storeStudentData, the other records stay.
SyncAllStudents(store, authority) ==
  [id \in DOMAIN store |->
     IF id \in DOMAIN authority /\ ExportOf(authority)[id].exists
     THEN StoreStudentData(store, id, ExportOf(authority)[id].status,
                           ExportOf(authority)[id].secretKey)[id]
     ELSE store[id]]

\* handleSyncNow while online: the students are refreshed (refreshed says
\* whether the export was answered), then the offline scan queue is flushed.
\* limit bounds the flushes in flight.
HandleSyncNow(refreshed, limit) ==
  /\ ~uiSyncing
  /\ online
  /\ Len(flushes) < limit
  /\ cache' = IF refreshed THEN SyncAllStudents(cache, students) ELSE cache
  /\ uiSyncing' = (offlineScanQueue # <<>>)
  /\ flushes' = StartedFlush("manual")
  /\ UNCHANGED <<sideVars, refreshVars, syncVars, now, online, students, scanLogs,
                 probe, scans,
                 lastScanned, scanHistory, offlineScanQueue>>

SyncNow(refreshed) == HandleSyncNow(refreshed, MaxFlushes)

\* validationStatus of a synced row.
SyncedStatus(status) ==
  IF status = "verified" THEN "valid"
  ELSE IF status = "expired" THEN "expired" ELSE "invalid"

\* The rows that syncLogs creates for logs, the ones in failed excepted.
RECURSIVE SyncedRows(_, _, _)
SyncedRows(logs, k, failed) ==
  IF k > Len(logs) THEN <<>>
  ELSE (IF k \in failed THEN <<>>
        ELSE <<LogRow(logs[k].studentId, 0, SyncedStatus(logs[k].status),
                      logs[k].timestamp, "sync", logs[k].scan)>>)
       \o SyncedRows(logs, k + 1, failed)

\* The Authority handles the request of flush j (syncLogs); the ScanLog
\* writes in failed reject.
SyncLogs(j, failed) ==
  /\ flushes[j].pc = "request"
  /\ failed \subseteq 1..Len(flushes[j].logs)
  /\ LET rows == SyncedRows(flushes[j].logs, 1, failed)
     IN  /\ Len(scanLogs) + Len(rows) <= MaxLog
         /\ scanLogs' = scanLogs \o rows
         /\ flushes' = [flushes EXCEPT ![j].pc = "response",
                                       ![j].synced = Len(rows)]
  /\ UNCHANGED <<sideVars, refreshVars, syncVars, now, online, students, cache, probe,
                 scans, lastScanned, scanHistory,
                 offlineScanQueue, uiSyncing>>

\* The fetch of flush j rejects, or its response is not ok: the queue stays.
FlushFails(j) ==
  /\ flushes[j].pc \in {"request", "response"}
  /\ flushes' = RemoveAt(flushes, j)
  /\ uiSyncing' = IF flushes[j].trigger = "manual" THEN FALSE ELSE uiSyncing
  /\ UNCHANGED <<sideVars, refreshVars, syncVars, now, online, students, scanLogs,
                 cache, probe, scans,
                 lastScanned, scanHistory, offlineScanQueue>>

\* The response of flush j is ok: clearOfflineScanQueue.
FlushSucceeds(j) ==
  /\ flushes[j].pc = "response"
  /\ offlineScanQueue' = <<>>
  /\ flushes' = RemoveAt(flushes, j)
  /\ uiSyncing' = IF flushes[j].trigger = "manual" THEN FALSE ELSE uiSyncing
  /\ UNCHANGED <<sideVars, refreshVars, syncVars, now, online, students, scanLogs,
                 cache, probe, scans,
                 lastScanned, scanHistory>>

\* The pipeline with one scan at a time.  Every student has a photo, so
\* that no scan awaits getStudentImage.
Next ==
  \/ Tick
  \/ \E qr \in ScanPayloads : HandleQRScan(qr)
  \/ \E i \in 1..Len(scans), fault \in DbFaults, logOk \in BOOLEAN :
       ServerValidate(i, fault, logOk)
  \/ \E i \in 1..Len(scans) : FetchFails(i)
  \/ \E i \in 1..Len(scans), shape \in {"json", "noSuccess", "garbled"} :
       ResponseArrives(i, shape, TRUE)
  \/ \E i \in 1..Len(scans), readOk \in BOOLEAN, cryptoOk \in BOOLEAN :
       LocalValidate(i, readOk, cryptoOk, TRUE)
  \/ GoOnline
  \/ GoOffline
  \/ \E refreshed \in BOOLEAN : SyncNow(refreshed)
  \/ \E j \in 1..Len(flushes), failed \in SUBSET (1..MaxScans) :
       SyncLogs(j, failed)
  \/ \E j \in 1..Len(flushes) : FlushFails(j)
  \/ \E j \in 1..Len(flushes) : FlushSucceeds(j)

Spec == Init /\ [][Next]_vars

\* syncService.js on its own: operations are added, pushed and retried
\* while the device goes offline and online.
NextSync ==
  \/ \E operation \in SyncOperations : AddToSyncQueue(operation)
  \/ \E outcome \in {"ok", "notOk", "rejected"} : SyncPushSettles(outcome)
  \/ SyncTimerFires
  \/ GoOnline
  \/ GoOffline

SpecSync == Init /\ [][NextSync]_vars

\* ------------------------------------------------------ overlapping scans
\* The payloads of ScanPayloads that pass the format check of handleQRScan.
WellFormedPayloads == {qr \in ScanPayloads : Len(Split(Trim(qr))) = 3}

\* Two codes were read one after the other and both calls of handleQRScan
\* are at their first await: the request of the online path or
\* validateQROffline of the offline path.
InitOrder ==
  /\ now = StartWindow * QR_ROTATION_MS
  /\ online = TRUE
  /\ students = PipelineStudents
  /\ scanLogs = <<>>
  /\ cache = ExportOf(PipelineStudents)
  /\ probe = NoProbe
  /\ \E a \in WellFormedPayloads, b \in WellFormedPayloads,
        pcA \in {"request", "offline"}, pcB \in {"request", "offline"} :
       /\ a # b
       /\ scans = <<ScanRecord(pcA, a, now), ScanRecord(pcB, b, now)>>
       /\ lastScanned = [set |-> TRUE, qr |-> b, time |-> now]
  /\ scanHistory = <<>>
  /\ compare = NoCompare
  /\ HolderAtRest
  /\ LocalLogsAtRest
  /\ offlineScanQueue = <<>>
  /\ flushes = <<>>
  /\ uiSyncing = FALSE
  /\ syncQueue = <<>>
  /\ savedQueue = <<>>
  /\ isSyncing = FALSE
  /\ syncRun = NoRun
  /\ syncTimers = 0
  /\ pushLog = <<>>
  /\ refresh = NoRefresh
  /\ got = NoGet

\* The two calls go on in any interleaving; a student may have no photo.
NextOrder ==
  \/ \E i \in 1..Len(scans) : ServerValidate(i, "none", TRUE)
  \/ \E i \in 1..Len(scans) : FetchFails(i)
  \/ \E i \in 1..Len(scans), image \in BOOLEAN : ResponseArrives(i, "json", image)
  \/ \E i \in 1..Len(scans), image \in BOOLEAN :
       LocalValidate(i, TRUE, TRUE, image)
  \/ \E i \in 1..Len(scans) : GetStudentImageResolves(i)

SpecOrder == InitOrder /\ [][NextOrder]_vars

\* ------------------------------------------------- the bulk cache refresh
\* What the Authority holds for one identifier, and what the device holds,
\* when a refresh begins.
RefreshDocs ==
  {NoRecord, StudentDoc("active", "K1"), StudentDoc("suspended", "K1"),
   StudentDoc("active", "K2")}

RefreshEntries ==
  {NoEntry, CacheEntry("active", "K1"), CacheEntry("suspended", "K1"),
   CacheEntry("active", "K2")}

InitRefresh ==
  /\ now = StartWindow * QR_ROTATION_MS
  /\ online = TRUE
  /\ students \in [Ids -> RefreshDocs]
  /\ cache \in [Ids -> RefreshEntries]
  /\ scanLogs = <<>>
  /\ probe = NoProbe
  /\ scans = <<>>
  /\ lastScanned = [set |-> FALSE, qr |-> <<>>, time |-> 0]
  /\ offlineScanQueue = <<>>
  /\ flushes = <<>>
  /\ uiSyncing = FALSE
  /\ syncQueue = <<>>
  /\ savedQueue = <<>>
  /\ isSyncing = FALSE
  /\ syncRun = NoRun
  /\ syncTimers = 0
  /\ pushLog = <<>>
  /\ refresh = NoRefresh
  /\ got = NoGet
  /\ scanHistory = <<>>
  /\ compare = NoCompare
  /\ HolderAtRest
  /\ LocalLogsAtRest

\* The orders in which Student.find() may list the identifiers in ids.
Orders(ids) ==
  {o \in UNION {[1..n -> ids] : n \in {Cardinality(ids)}} :
     \A a, b \in 1..Len(o) : a # b => o[a] # o[b]}

\* syncAllStudents up to its loop: the export is fetched and answered.  A
\* request that fails or is not ok leaves the store as it is.
SyncAllStudentsBegins(order) ==
  /\ refresh.pc \in {"idle", "done"}
  /\ online
  /\ order \in Orders({id \in Ids : students[id].exists})
  /\ refresh' = [pc |-> "storing", students |-> order, old |-> cache,
                 new |-> ExportOf(students)]
  /\ UNCHANGED <<sideVars, syncVars, got, now, online, students, scanLogs, cache, probe,
                 deviceVars>>

\* One turn of the loop: await this.storeStudentData(student), which gets,
\* merges and puts the record in one readwrite transaction.
StoreNextStudent ==
  /\ refresh.pc = "storing"
  /\ refresh.students # <<>>
  /\ LET student == refresh.new[Head(refresh.students)]
     IN  cache' = StoreStudentData(cache, Head(refresh.students),
                                   student.status, student.secretKey)
  /\ refresh' = [refresh EXCEPT !.students = Tail(@)]
  /\ UNCHANGED <<sideVars, syncVars, got, now, online, students, scanLogs, probe,
                 deviceVars>>

\* The loop is over: syncAllStudents returns students.length.
SyncAllStudentsReturns ==
  /\ refresh.pc = "storing"
  /\ refresh.students = <<>>
  /\ refresh' = [refresh EXCEPT !.pc = "done"]
  /\ UNCHANGED <<sideVars, syncVars, got, now, online, students, scanLogs, cache, probe,
                 deviceVars>>

\* getStudentData(studentId), in a readonly transaction of its own.  pc is
\* where the refresh was when the transaction ran, old and new are copied
\* from it; no code reads them.
GetStudentData(studentId) ==
  /\ got' = [pc |-> refresh.pc, studentId |-> studentId,
             result |-> cache[studentId], old |-> refresh.old[studentId],
             new |-> refresh.new[studentId]]
  /\ UNCHANGED <<sideVars, syncVars, refresh, now, online, students, scanLogs, cache,
                 probe, deviceVars>>

NextRefresh ==
  \/ \E order \in Orders(Ids) \cup UNION {Orders({id}) : id \in Ids} \cup {<<>>} :
       SyncAllStudentsBegins(order)
  \/ StoreNextStudent
  \/ SyncAllStudentsReturns
  \/ \E studentId \in Ids : GetStudentData(studentId)

SpecRefresh == InitRefresh /\ [][NextRefresh]_vars

\* ------------------------------------------- the comparison of signatures
\* The scanner, the Authority and the sync service at rest: nothing scanned,
\* nothing queued, nothing in flight.
AtRest ==
  /\ online = TRUE
  /\ scanLogs = <<>>
  /\ scans = <<>>
  /\ lastScanned = [set |-> FALSE, qr |-> <<>>, time |-> 0]
  /\ offlineScanQueue = <<>>
  /\ flushes = <<>>
  /\ uiSyncing = FALSE
  /\ syncQueue = <<>>
  /\ savedQueue = <<>>
  /\ isSyncing = FALSE
  /\ syncRun = NoRun
  /\ syncTimers = 0
  /\ pushLog = <<>>
  /\ refresh = NoRefresh
  /\ got = NoGet
  /\ scanHistory = <<>>

\* The position of the first symbol in which a and b, of one length, differ;
\* one past the end when they are equal.
FirstDifference(a, b) ==
  LET differ == {k \in 1..Len(a) : a[k] # b[k]}
  IN  IF differ = {} THEN Len(a) + 1
      ELSE CHOOSE k \in differ : \A l \in differ : k <= l

\* The symbols that crypto.timingSafeEqual(a, b) reads.  It throws before
\* reading any when the lengths differ; otherwise it reads every one, whatever
\* it finds on the way.
TimingSafeEqualSteps(a, b) ==
  IF TimingSafeEqualThrows(a, b) THEN 0 ELSE Len(b)

\* The symbols that a !== b reads.  Strings of different length are unequal
\* without a look at their content.  For strings of one length the language
\* leaves the order of work to the engine: one that leaves at the first
\* difference (stopsEarly) reads up to it, one that does not reads them all.
StrictInequalitySteps(a, b, stopsEarly) ==
  IF Len(a) # Len(b) THEN 0
  ELSE IF stopsEarly /\ FirstDifference(a, b) <= Len(a)
       THEN FirstDifference(a, b)
       ELSE Len(a)

\* Signatures of the length of expectedToken: the right one, one that is
\* wrong from its second half on, two that are wrong from the first symbol.
Presented(expectedToken, other) ==
  {expectedToken, <<expectedToken[1], other[2]>>,
   <<other[1], expectedToken[2]>>, other}

\* Two verifications on one path against one expected signature, each with
\* a presented signature of its own.
InitCompare ==
  /\ AtRest
  /\ now = StartWindow * QR_ROTATION_MS
  /\ probe = NoProbe
  /\ HolderAtRest
  /\ LocalLogsAtRest
  /\ students = PipelineStudents
  /\ cache = ExportOf(PipelineStudents)
  /\ \E path \in {"authority", "local", "worker"}, id \in Ids,
        w \in {StartWindow, MaxWindow}, k \in Keys :
       LET expectedToken == HmacHex(k, TokenMessage(id, Num(w)))
           other == HmacHex(CHOOSE o \in Keys : o # k,
                            TokenMessage(id, Num(w)))
       IN  \E a \in Presented(expectedToken, other),
              b \in Presented(expectedToken, other) :
             compare = [NoCompare EXCEPT !.path = path,
                                         !.expectedToken = expectedToken,
                                         !.token = <<a, b>>]

Compared(run, steps) ==
  [compare EXCEPT !.steps[run] = steps, !.done[run] = TRUE]

\* validateQR, the comparison of line 100.
CompareOnAuthority(run) ==
  /\ compare.path = "authority"
  /\ ~compare.done[run]
  /\ compare' = Compared(run, TimingSafeEqualSteps(compare.token[run],
                                                   compare.expectedToken))
  /\ UNCHANGED <<holderVars, localLogVars, now, online, students, scanLogs, cache, probe, deviceVars,
                 syncVars, refreshVars>>

\* validateQROffline of OfflineService, the comparison of line 366.
CompareOnDevice(run, stopsEarly) ==
  /\ compare.path = "local"
  /\ ~compare.done[run]
  /\ compare' = Compared(run, StrictInequalitySteps(Trim(compare.token[run]),
                                                    compare.expectedToken,
                                                    stopsEarly))
  /\ UNCHANGED <<holderVars, localLogVars, now, online, students, scanLogs, cache, probe, deviceVars,
                 syncVars, refreshVars>>

\* validateQROffline of the service worker, the comparison of line 331.
CompareInWorker(run, stopsEarly) ==
  /\ compare.path = "worker"
  /\ ~compare.done[run]
  /\ compare' = Compared(run, StrictInequalitySteps(compare.token[run],
                                                    compare.expectedToken,
                                                    stopsEarly))
  /\ UNCHANGED <<holderVars, localLogVars, now, online, students, scanLogs, cache, probe, deviceVars,
                 syncVars, refreshVars>>

NextCompare ==
  \/ \E run \in 1..2 : CompareOnAuthority(run)
  \/ \E run \in 1..2, stopsEarly \in BOOLEAN : CompareOnDevice(run, stopsEarly)
  \/ \E run \in 1..2, stopsEarly \in BOOLEAN : CompareInWorker(run, stopsEarly)

SpecCompare == InitCompare /\ [][NextCompare]_vars

\* ------------------------------------------------------ the holder's device
\* The holder who is logged in on the device, and the key stored for them.
HolderId == <<"S1">>
HolderKey == "K1"

\* Math.floor(Date.now() / QR_ROTATION_MS)
WindowTruncatesToEven(nowMs) == 2 * (nowMs \div (2 * QR_ROTATION_MS))

WindowOf(nowMs) == nowMs \div QR_ROTATION_MS

\* generateQR up to its first await: the session is checked and the clock is
\* read.
Call(origin) ==
  [origin |-> origin, timeWindow |-> WindowOf(now), readAt |-> now]

\* The object that generateQR assigns to currentQR.
GeneratedQR(call, qrToken) ==
  [success |-> TRUE, studentId |-> HolderId, timeWindow |-> call.timeWindow,
   token |-> QRPayload(HolderId, Num(call.timeWindow), qrToken),
   expiresAt |-> (call.timeWindow + 1) * QR_ROTATION_MS, timestamp |-> now]

\* setTimeout(scheduleNextRefresh, delay)
Armed(delay) == [id |-> timerSeq + 1, due |-> now + delay]

\* clearTimeout(refreshTimer) of stopQRRefresh.
Cleared == {t \in timers : t.id # refreshTimer}

\* The clock of the holder's device.
HolderTick ==
  /\ now + TickMs <= StartWindow * QR_ROTATION_MS + MaxHolderTicks * TickMs
  /\ now' = now + TickMs
  /\ UNCHANGED <<compare, localLogVars, holderVars, refreshVars, syncVars, online, students,
                 scanLogs, cache, probe, deviceVars>>

\* StudentDashboard mounts: initDashboard runs up to `await generateQR()`.
Mount ==
  /\ ~mounted
  /\ Len(calls) < MaxCalls
  /\ mounted' = TRUE
  /\ calls' = Append(calls, Call("init"))
  /\ UNCHANGED <<compare, localLogVars, currentQR, refreshTimer, timers, timerSeq, generated,
                 stopped, refreshVars, syncVars, now, online, students,
                 scanLogs, cache, probe, deviceVars>>

\* The cleanup of the init effect: stopQRRefresh.
Unmount ==
  /\ mounted
  /\ mounted' = FALSE
  /\ timers' = Cleared
  /\ refreshTimer' = 0
  /\ stopped' = TRUE
  /\ UNCHANGED <<compare, localLogVars, currentQR, timerSeq, calls, generated, refreshVars,
                 syncVars, now, online, students, scanLogs, cache, probe,
                 deviceVars>>

\* The countdown of StudentDashboard finds the token expired and calls
\* generateQR.
CountdownRegenerates ==
  /\ mounted
  /\ currentQR.success /\ ~(now < currentQR.expiresAt)
  /\ Len(calls) < MaxCalls
  /\ calls' = Append(calls, Call("countdown"))
  /\ UNCHANGED <<compare, localLogVars, currentQR, refreshTimer, timers, timerSeq, generated,
                 mounted, stopped, refreshVars, syncVars, now, online,
                 students, scanLogs, cache, probe, deviceVars>>

\* A timeout of the refresh loop fires: scheduleNextRefresh runs up to
\* `await generateQR()`.
RefreshTimerFires(t) ==
  /\ t \in timers
  /\ now >= t.due
  /\ Len(calls) < MaxCalls
  /\ timers' = timers \ {t}
  /\ calls' = Append(calls, Call("loop"))
  /\ UNCHANGED <<compare, localLogVars, currentQR, refreshTimer, timerSeq, generated,
                 mounted, stopped, refreshVars, syncVars, now, online,
                 students, scanLogs, cache, probe, deviceVars>>

\* A call of generateQR settles, and its caller goes on.  With a key and a
\* working crypto.subtle it assigns currentQR and returns it; without, it
\* throws.  initDashboard then calls startQRRefresh, which stops the loop and
\* runs scheduleNextRefresh up to its own `await generateQR()`;
\* scheduleNextRefresh arms the next timeout, at the start of the next window
\* after a token and RetryDelayMs later after a failure.
GenerateQRSettles(c, secretKey, cryptoOk) ==
  /\ c \in 1..Len(calls)
  /\ LET call  == calls[c]
         made  == GenerateSecureToken(HolderId, Num(call.timeWindow),
                                      secretKey, cryptoOk)
         qr    == GeneratedQR(call, made.hex)
         rest  == RemoveAt(calls, c)
         timer == Armed(IF made.threw THEN RetryDelayMs
                        ELSE QR_ROTATION_MS - (now % QR_ROTATION_MS))
     IN  /\ ~made.threw => Len(generated) < MaxGenerated
         /\ call.origin = "loop" => timerSeq < MaxArmed
         /\ currentQR' = IF made.threw THEN currentQR ELSE qr
         /\ generated' =
              IF made.threw THEN generated
              ELSE Append(generated,
                          [qr |-> qr, readAt |-> call.readAt,
                           origin |-> call.origin,
                           afterStop |-> stopped /\ call.origin = "loop"])
         /\ calls' = IF call.origin = "init" THEN Append(rest, Call("loop"))
                     ELSE rest
         /\ timers' = CASE call.origin = "init" -> Cleared
                        [] call.origin = "loop" -> timers \cup {timer}
                        [] OTHER -> timers
         /\ refreshTimer' = CASE call.origin = "init" -> 0
                              [] call.origin = "loop" -> timer.id
                              [] OTHER -> refreshTimer
         /\ timerSeq' = IF call.origin = "loop" THEN timer.id ELSE timerSeq
         /\ stopped' = IF call.origin = "init" THEN FALSE ELSE stopped
  /\ UNCHANGED <<compare, localLogVars, mounted, refreshVars, syncVars, now, online,
                 students, scanLogs, cache, probe, deviceVars>>

InitHolder ==
  /\ AtRest
  /\ now = StartWindow * QR_ROTATION_MS
  /\ probe = NoProbe
  /\ students = PipelineStudents
  /\ cache = ExportOf(PipelineStudents)
  /\ compare = NoCompare
  /\ HolderAtRest
  /\ LocalLogsAtRest

NextHolder ==
  \/ HolderTick
  \/ Mount
  \/ Unmount
  \/ CountdownRegenerates
  \/ \E t \in timers : RefreshTimerFires(t)
  \/ \E c \in 1..Len(calls), secretKey \in {HolderKey, NoKey},
        cryptoOk \in BOOLEAN :
       GenerateQRSettles(c, secretKey, cryptoOk)

SpecHolder == InitHolder /\ [][NextHolder]_vars

\* ------------------------------------------- the scan log in localStorage
\* [newLog, ...existingLogs].slice(0, 100)
Newest(logs) == SubSeq(logs, 1, IF Len(logs) < ScanLogCap THEN Len(logs)
                                 ELSE ScanLogCap)

\* logs.filter(log => !log.isSynced)
Unsynced(logs) == SelectSeq(logs, LAMBDA log : ~log.isSynced)

\* logs.map(log => unsyncedLogs.some(u => u.timestamp === log.timestamp)
\*                   ? { ...log, isSynced: true } : log)
MarkSynced(logs, unsyncedLogs) ==
  [l \in 1..Len(logs) |->
     IF \E u \in 1..Len(unsyncedLogs) :
          unsyncedLogs[u].timestamp = logs[l].timestamp
     THEN [logs[l] EXCEPT !.isSynced = TRUE]
     ELSE logs[l]]

\* logScanLocally(scanData).  The field n numbers the calls; the code does
\* not have it and nothing below reads it.
LogScanLocally(studentId) ==
  /\ logged < MaxLogged
  /\ logged' = logged + 1
  /\ localScanLogs' =
       Newest(<<[studentId |-> studentId, timestamp |-> now,
                 isSynced |-> FALSE, n |-> logged + 1]>> \o localScanLogs)
  /\ UNCHANGED <<compare, holderVars, logSyncs, answered, refreshVars,
                 syncVars, now, online, students, scanLogs, cache, probe,
                 deviceVars>>

\* syncScanLogs up to `await fetch(...)`.  With nothing to send it returns
\* at once and changes nothing.
SyncScanLogsBegins ==
  /\ Len(logSyncs) < MaxLogSyncs
  /\ Unsynced(localScanLogs) # <<>>
  /\ logSyncs' = Append(logSyncs,
                        [logs |-> localScanLogs,
                         unsyncedLogs |-> Unsynced(localScanLogs)])
  /\ UNCHANGED <<compare, holderVars, localScanLogs, answered, logged,
                 refreshVars, syncVars, now, online, students, scanLogs,
                 cache, probe, deviceVars>>

\* The request of a call of syncScanLogs settles.  With response.ok the
\* call marks the entries of the list it read before the request and stores
\* that list; otherwise it throws into its catch and stores nothing.
SyncScanLogsSettles(k, ok) ==
  /\ k \in 1..Len(logSyncs)
  /\ logSyncs' = RemoveAt(logSyncs, k)
  /\ localScanLogs' =
       IF ok THEN MarkSynced(logSyncs[k].logs, logSyncs[k].unsyncedLogs)
       ELSE localScanLogs
  /\ answered' =
       IF ok
       THEN answered \cup {logSyncs[k].unsyncedLogs[u].n :
                             u \in 1..Len(logSyncs[k].unsyncedLogs)}
       ELSE answered
  /\ UNCHANGED <<compare, holderVars, logged, refreshVars, syncVars, now,
                 online, students, scanLogs, cache, probe, deviceVars>>

InitLogs ==
  /\ AtRest
  /\ now = StartWindow * QR_ROTATION_MS
  /\ probe = NoProbe
  /\ students = PipelineStudents
  /\ cache = ExportOf(PipelineStudents)
  /\ compare = NoCompare
  /\ HolderAtRest
  /\ LocalLogsAtRest

NextLogs ==
  \/ Tick
  \/ \E studentId \in Ids : LogScanLocally(studentId)
  \/ SyncScanLogsBegins
  \/ \E k \in 1..Len(logSyncs), ok \in BOOLEAN : SyncScanLogsSettles(k, ok)

SpecLogs == InitLogs /\ [][NextLogs]_vars

\* ------------------------------------------------- the two paths, one record
\* One payload before both verifiers, neither of them verified yet.
NoPair(qrData) ==
  [path |-> "both", qrData |-> qrData, done |-> FALSE,
   authority |-> NoResult, local |-> NoResult]

\* The cache holds what the Authority holds: for every holder the same
\* secret and status, or no record in either.
InitPaths ==
  /\ AtRest
  /\ HolderAtRest
  /\ LocalLogsAtRest
  /\ compare = NoCompare
  /\ now \in ProbeClock
  /\ students \in StudentStores
  /\ cache = ExportOf(students)
  /\ \E qr \in ProbePayloads : probe = NoPair(qr)

\* The payload is verified by validateQR against the store and by
\* validateQROffline against the cache, with no fault on either side.
ProbeBothPaths ==
  /\ probe.path = "both" /\ ~probe.done
  /\ LET r == ValidateQR(students, now, probe.qrData, "none", TRUE, 0)
         l == ValidateQROffline(cache, now, probe.qrData, TRUE, TRUE)
     IN  /\ scanLogs' = scanLogs \o r.rows
         /\ probe' = [probe EXCEPT !.done = TRUE, !.authority = r.body,
                                   !.local = l.body]
  /\ UNCHANGED <<sideVars, refreshVars, syncVars, now, online, students, cache,
                 deviceVars>>

NextPaths == ProbeBothPaths

SpecPaths == InitPaths /\ [][NextPaths]_vars

\* ------------------------------------------------- claims on verification
\* The fields of the probe's payload, as both verifiers split it.
ProbeParts == Split(Trim(probe.qrData))

ProbeId == ProbeParts[1]

ProbeWindow == ParseInt(ProbeParts[2])

\* The holder record that the probe's path looks up.
ProbeHolder ==
  LET store == IF probe.path = "local" THEN cache ELSE students
  IN  IF ProbeId \in DOMAIN store THEN store[ProbeId] ELSE NoRecord

\* The signature that the probe's path compares: the device trims the field.
ProbePresented ==
  IF probe.path = "local" THEN Trim(ProbeParts[3]) ELSE ProbeParts[3]

\* The signature derived from the looked-up secret over identifier|window.
ProbeExpected ==
  HmacHex(ProbeHolder.secretKey, TokenMessage(ProbeId, ProbeWindow))

ProbeOutcome == Classify(probe.body)

\* The probe went through validateQR or validateQROffline and is finished.
ProbeVerified == probe.done /\ probe.path \in {"authority", "local"}

\* The current window, floor(now / 60000).
ProbeCurrentWindow == now \div 60000

\* The probe's window is a number more than one window away from the current.
ProbeOutOfTolerance ==
  /\ ~ProbeWindow.nan
  /\ \/ ProbeWindow.val > ProbeCurrentWindow + 1
     \/ ProbeWindow.val < ProbeCurrentWindow - 1

ProbeInWindow ==
  /\ Len(ProbeParts) = 3
  /\ ~ProbeWindow.nan
  /\ ~ProbeOutOfTolerance

\* C1: on the Authority path and on the local path, an outcome is valid only
\* if the presented signature equals the signature derived from the
\* looked-up holder's secret over identifier|window for the presented
\* window, and the looked-up holder's status is active.
C1_ValidImpliesSignatureAndActive ==
  (ProbeVerified /\ ProbeOutcome = "verified") =>
     /\ Len(ProbeParts) = 3
     /\ ProbeHolder.exists
     /\ ProbeHolder.status = "active"
     /\ ProbeHolder.secretKey # NoKey
     /\ ProbePresented = ProbeExpected

C1_Witness ==
  /\ ProbeVerified
  /\ ProbeOutcome = "verified"
  /\ probe.path = "local"
  /\ ProbeHolder.secretKey = "K2"

\* C2 as claimed: every token whose window w has |currentWindow - w| > 1 is
\* expired on both paths, and one with |currentWindow - w| <= 1 never is.
C2_ExpiredIffOutOfTolerance ==
  (ProbeVerified /\ Len(ProbeParts) = 3 /\ ~ProbeWindow.nan) =>
     (ProbeOutOfTolerance <=> ProbeOutcome = "expired")

\* C2 as amended: every token whose window w is a positive integer with
\* |currentWindow - w| > 1 is expired on both paths, whatever the signature
\* and the holder; an outcome is expired only for a window with
\* |currentWindow - w| > 1.
C2_PositiveWindowExpiredIffOutOfTolerance ==
  (ProbeVerified /\ Len(ProbeParts) = 3) =>
     /\ (ProbeOutOfTolerance /\ ProbeWindow.val > 0) => ProbeOutcome = "expired"
     /\ ProbeOutcome = "expired" => ProbeOutOfTolerance

C2_Witness ==
  /\ ProbeVerified
  /\ probe.path = "authority"
  /\ ProbeOutcome = "expired"
  /\ ProbeWindow.val > ProbeCurrentWindow + 1
  /\ ProbeHolder.status = "active"
  /\ ProbeParts[3] = ProbeExpected

\* The payload that the holder's device generates in the current window
\* (generateQR) for the probe's identifier with the looked-up secret.
ProbeGenerated ==
  QRPayload(ProbeId, CurrentTimeWindow(now),
            GenerateSecureToken(ProbeId, CurrentTimeWindow(now),
                                ProbeHolder.secretKey, TRUE).hex)

\* No database read, cache read or crypto call fails during the probe.
ProbeFaultFree ==
  probe.fault = "none" /\ probe.readOk /\ probe.cryptoOk

\* C3: the token identifier|w|derive(identifier, w, secret) that the holder
\* device generates for an active holder is valid when verified in window w,
\* by the Authority with the stored secret and by the device with a cache
\* record holding the same secret (no read or crypto call failing).
C3_GeneratedTokenVerifies ==
  (/\ ProbeVerified
   /\ Len(ProbeParts) = 3
   /\ ProbeHolder.exists
   /\ ProbeHolder.status = "active"
   /\ ProbeHolder.secretKey # NoKey
   /\ probe.qrData = ProbeGenerated
   /\ ProbeFaultFree)
    => (ProbeOutcome = "verified" /\ probe.body.student.id = ProbeId)

C3_Witness ==
  /\ ProbeVerified
  /\ probe.path = "authority"
  /\ Len(ProbeParts) = 3
  /\ ProbeHolder.status = "active"
  /\ ProbeHolder.secretKey = "K1"
  /\ probe.qrData = ProbeGenerated
  /\ ProbeFaultFree
  /\ now % QR_ROTATION_MS # 0
  /\ ProbeOutcome = "verified"

\* C4: a token with an in-tolerance window whose presented signature differs
\* from the expected one (one computed under another secret, for instance)
\* is invalid on both paths: never valid, never anything but a classified
\* outcome.
C4_MismatchIsInvalid ==
  (/\ ProbeVerified
   /\ ProbeInWindow
   /\ ProbeHolder.exists
   /\ ProbeHolder.secretKey # NoKey
   /\ ProbePresented # ProbeExpected)
    => (ProbeOutcome = "invalid" /\ ~probe.body.valid)

C4_Witness ==
  /\ ProbeVerified
  /\ ProbeInWindow
  /\ probe.path = "authority"
  /\ ProbeHolder.status = "active"
  /\ ProbeHolder.secretKey = "K1"
  /\ ProbeParts[3] = HmacHex("K2", TokenMessage(ProbeId, ProbeWindow))
  /\ ProbeOutcome = "invalid"
  /\ probe.body.message = "Invalid QR token"

\* The probe's path got as far as reading the holder record.
ProbeLookedUp ==
  /\ Len(ProbeParts) = 3
  /\ ~ProbeOutOfTolerance
  /\ probe.path = "authority"
       => (~ProbeWindow.nan /\ ProbeWindow.val > 0 /\ probe.fault # "findOne")
  /\ probe.path = "local" => probe.readOk
  /\ ProbeHolder.exists

\* C5: if the looked-up holder's status is not active, the outcome is invalid
\* with the reason that the holder is not active, even with the window in
\* tolerance and the signature correct, on both paths.
C5_InactiveHolderIsInvalid ==
  (ProbeVerified /\ ProbeLookedUp /\ ProbeHolder.status # "active") =>
     /\ ProbeOutcome = "invalid"
     /\ probe.body.message = "Student account is not active"

C5_Witness ==
  /\ ProbeVerified
  /\ ProbeLookedUp
  /\ probe.path = "local"
  /\ ProbeHolder.status = "graduated"
  /\ ProbeHolder.secretKey = "K1"
  /\ ProbePresented = ProbeExpected
  /\ ProbeOutcome = "invalid"
  /\ probe.body.message = "Student account is not active"

\* The verifications that handleQRScan carried to their end.
DoneScans == {i \in 1..Len(scans) : scans[i].pc = "done"}

\* C6: whatever the payload and whatever the Authority and the cache do
\* (missing entry, missing secret, read error, an exception in the signature
\* comparison, a rejected log write, a failed or garbled response), every
\* verification that ends has exactly one outcome among verified (valid),
\* invalid and expired, and one that met an internal fault ends invalid.
C6_EveryVerificationIsClassified ==
  \A i \in DoneScans :
    /\ scans[i].outcome \in {"verified", "invalid", "expired"}
    /\ scans[i].faulted => scans[i].outcome = "invalid"
    /\ scans[i].outcome = "verified"
         <=> (scans[i].result.success /\ scans[i].result.valid)

C6_Witness ==
  \E i \in DoneScans, j \in DoneScans :
    /\ scans[i].faulted /\ scans[i].source = "remote"
    /\ scans[i].result.message = "Server error during validation"
    /\ scans[i].outcome = "invalid"
    /\ scans[j].faulted /\ scans[j].source = "local"
    /\ scans[j].result.message = "Offline validation failed"
    /\ scans[j].outcome = "invalid"

\* The probe is a token of the current window that carries the signature
\* derived from the secret of an active entry of the cache.
ProbeMatchesCache ==
  /\ Len(ProbeParts) = 3
  /\ ProbeId \in DOMAIN cache
  /\ cache[ProbeId].exists
  /\ cache[ProbeId].status = "active"
  /\ cache[ProbeId].secretKey # NoKey
  /\ ~ProbeWindow.nan
  /\ ProbeWindow.val = ProbeCurrentWindow
  /\ ProbeParts[3] = HmacHex(cache[ProbeId].secretKey,
                             TokenMessage(ProbeId, ProbeWindow))

\* C7: when the request to the Authority fails and the cache holds a
\* matching active entry with the correct secret, the verification falls
\* back to the cache and its outcome is valid with the local source.
C7_FailedRequestFallsBackToCache ==
  (probe.done /\ probe.path = "validateQRToken" /\ probe.net = "unreachable"
     /\ ProbeMatchesCache)
    => (probe.body.valid /\ probe.type = "local")

\* The verifications whose outcome was put in the offline scan queue.
QueuedScans == {i \in 1..Len(scans) : scans[i].queued}

\* The rows that the sync endpoint wrote for the outcome of scan i.
SyncedRowsOf(i) ==
  {k \in 1..Len(scanLogs) : scanLogs[k].origin = "sync" /\ scanLogs[k].tag = i}

\* C8: however often one outcome (same identifier, window, timestamp) is
\* delivered to the sync endpoint, in one request or in several, the
\* canonical log holds no more than one row for it.
C8_SyncPushIsIdempotent ==
  \A i \in QueuedScans : Cardinality(SyncedRowsOf(i)) <= 1

\* The entries of syncQueue that stand for the operation that the call
\* numbered id of addToSyncQueue added.
SyncEntriesOf(id) == {k \in 1..Len(syncQueue) : syncQueue[k].id = id}

\* C9: an operation whose push succeeded is out of the queue once the flush
\* is over; an operation that was never pushed with success is in the queue,
\* with attempts equal to the number of its failed pushes, and is not pushed
\* again after 3 failures: it stays in the queue, dormant.
C9_FlushBookkeeping ==
  \A id \in 1..Len(pushLog) :
    /\ (pushLog[id].ok /\ syncRun.pc = "idle") => SyncEntriesOf(id) = {}
    /\ pushLog[id].failed <= RetryLimit
    /\ ~pushLog[id].ok =>
         /\ SyncEntriesOf(id) # {}
         /\ \A k \in SyncEntriesOf(id) : syncQueue[k].attempts = pushLog[id].failed

\* C10: every outcome that was put in the offline scan queue is still in the
\* queue or has a row in the canonical log.
C10_NoLossOnFlush ==
  \A i \in QueuedScans :
    \/ \E k \in 1..Len(offlineScanQueue) : offlineScanQueue[k].scan = i
    \/ SyncedRowsOf(i) # {}

\* The verifications that the device settled against its cache, on the
\* offline path or after the request to the Authority failed.
LocalScans == {i \in DoneScans : scans[i].source = "local"}

\* C11: every outcome (valid, invalid or expired) that is produced while the
\* device is disconnected, straight from the cache or after a failed
\* request, is recorded locally and put in the offline scan queue.
C11_DisconnectedOutcomeIsQueued ==
  \A i \in LocalScans : scans[i].recorded /\ scans[i].queued

\* validationStatus of the row that matches a classification.
RowStatusOf(outcome) == IF outcome = "verified" THEN "valid" ELSE outcome

\* C12: for every exit of validateQR (valid, signature mismatch, expired,
\* unknown holder, inactive holder, missing secret, malformed payload,
\* internal error) the Authority has appended one row with the matching
\* classification to the canonical log.
C12_EveryRequestIsLogged ==
  (probe.done /\ probe.path = "authority") =>
     /\ Len(scanLogs) = 1
     /\ scanLogs[1].validationStatus = RowStatusOf(ProbeOutcome)

\* The rows of the canonical log that belong to the verification of scan i,
\* written by validateQR or by syncLogs.
RowsOf(i) == {k \in 1..Len(scanLogs) : scanLogs[k].tag = i}

\* No flush is in flight and nothing waits in the offline scan queue.
SyncsComplete == offlineScanQueue = <<>> /\ flushes = <<>>

\* C13: each verification yields one outcome, and once all pending syncs
\* are complete the canonical log holds exactly one row for it, whatever
\* was lost or retried on the way.
C13_ExactlyOneRowPerVerification ==
  SyncsComplete =>
    \A i \in DoneScans :
      scans[i].source \in {"remote", "local"} => Cardinality(RowsOf(i)) = 1

\* ------------------------------------------------------ claims on delivery
\* What runs without anyone acting once a flush was started: a request that
\* can reach the Authority is handled, and its response, if it keeps
\* arriving, is ok once.  Scanning, Sync Now, the connectivity events and
\* the failures of the network are left to the user and the environment.
FairDelivery ==
  /\ SF_vars(\E j \in 1..Len(flushes) : SyncLogs(j, {}))
  /\ SF_vars(\E j \in 1..Len(flushes) : FlushSucceeds(j))

\* What the device does on its own during a scan: a response that has
\* arrived is read.  Whether a request is handled or fails is up to the
\* network and the Authority.
FairScan ==
  WF_vars(\E i \in 1..Len(scans) : ResponseArrives(i, "json", TRUE))

\* The pipeline without faults of the database, of the store or of the
\* response bodies: requests are handled or fail, flushes are handled or
\* fail, the device goes offline and online, the user scans and syncs, and
\* the online handler and Sync Now may flush side by side.
NextLive ==
  \/ \E qr \in ScanPayloads : HandleQRScan(qr)
  \/ \E i \in 1..Len(scans) : ServerValidate(i, "none", TRUE)
  \/ \E i \in 1..Len(scans) : FetchFails(i)
  \/ \E i \in 1..Len(scans) : ResponseArrives(i, "json", TRUE)
  \/ \E i \in 1..Len(scans) : LocalValidate(i, TRUE, TRUE, TRUE)
  \/ OnlineEvent(MaxOverlap)
  \/ GoOffline
  \/ HandleSyncNow(TRUE, MaxOverlap)
  \/ \E j \in 1..Len(flushes) : SyncLogs(j, {})
  \/ \E j \in 1..Len(flushes) : FlushFails(j)
  \/ \E j \in 1..Len(flushes) : FlushSucceeds(j)

SpecLive == Init /\ [][NextLive]_vars /\ FairDelivery /\ FairScan

\* The canonical log has room for the rows of a push.
LogHasRoom == Len(scanLogs) < MaxLog

\* C14: if connectivity is eventually restored for good and the Authority
\* accepts pushes, a non-empty offline scan queue eventually becomes empty.
C14_EventualDelivery ==
  (<>[]online /\ []LogHasRoom) =>
     ((offlineScanQueue # <<>>) ~> (offlineScanQueue = <<>>))

\* A field that is a positive integer in decimal digits.
IsPositiveInteger(field) ==
  /\ field # <<>>
  /\ \A k \in 1..Len(field) : IsDigit(field[k])
  /\ DigitRun(field, 0) > 0

\* The probe's payload does not have three fields, or its window field is
\* not a positive integer.
ProbeMalformed ==
  Len(ProbeParts) # 3 \/ ~IsPositiveInteger(ProbeParts[2])

\* C19: a malformed payload is classified invalid by the Authority and by
\* the local verifier (no database, store or crypto call failing); it is
\* never valid, never expired, and never ends in an error.
C19_MalformedIsInvalid ==
  (ProbeVerified /\ ProbeFaultFree /\ ProbeMalformed)
     => (ProbeOutcome = "invalid" /\ ~probe.faulted)

\* C18: a request to the Authority that never completes does not hold the
\* scan for ever: the device stops waiting, falls back to the cache or ends
\* the scan.
C18_NoIndefiniteBlocking ==
  \A i \in 1..MaxScans :
    (i <= Len(scans) /\ scans[i].pc = "request")
       ~> (i <= Len(scans) /\ scans[i].pc \in {"fallback", "done"})

\* ------------------------------------------------------- claims on the cache
\* C15: a getStudentData that runs while syncAllStudents is in its loop
\* resolves with the whole record that the store held for that identifier
\* when the refresh began or with the whole record that the Authority
\* exported for it, never with a record that has fields of both.
C15_GetDuringRefreshIsOldOrNew ==
  got.pc = "storing" => got.result \in {got.old, got.new}

\* A record is read between two puts of a refresh that changes both its
\* status and its secret: once before its put and once after.
C15_Witness ==
  /\ got.pc = "storing"
  /\ got.old.exists /\ got.new.exists
  /\ got.old.status # got.new.status
  /\ got.old.secretKey # got.new.secretKey
  /\ got.result = got.new
  /\ Len(refresh.students) = 1

\* C16: when syncAllStudents has returned, the store holds exactly what the
\* Authority exported: the same identifiers with the same secret and status.
C16_RefreshReplacesCache ==
  refresh.pc = "done" => \A id \in Ids : cache[id] = refresh.new[id]

\* The scans that the Authority verified as valid.
RemoteVerified ==
  {i \in DoneScans : scans[i].source = "remote" /\ scans[i].outcome = "verified"}

\* C17: a token that the Authority verified as valid, scanned again on the
\* same device while it is still in its window and verified against the
\* cache without a fault, is valid again: the put that followed the remote
\* verification left a usable record.
C17_WarmedCacheVerifiesOffline ==
  \A i \in RemoteVerified : \A j \in LocalScans :
    (i < j /\ scans[j].qrData = scans[i].qrData /\ ~scans[j].faulted)
       => scans[j].outcome = "verified"

\* ------------------------------------------------------ claims on ordering
\* C20: the entries of the history (newest first) and of the offline scan
\* queue (oldest first) are in the order in which the verifications of
\* their scans were settled.
C20_AppendedInCompletionOrder ==
  /\ \A a, b \in 1..Len(scanHistory) :
       a < b => scans[scanHistory[a].scan].completed
                  > scans[scanHistory[b].scan].completed
  /\ \A a, b \in 1..Len(offlineScanQueue) :
       a < b => scans[offlineScanQueue[a].scan].completed
                  < scans[offlineScanQueue[b].scan].completed

\* --------------------------------------------------- claims on supersession
\* The scans whose verification was settled by the Authority or the cache.
VerifiedScans == {i \in DoneScans : scans[i].source \in {"remote", "local"}}

\* The scans that are in the history.
HistoryScans == {scanHistory[k].scan : k \in 1..Len(scanHistory)}

C22_SingleFlushInFlight == Len(flushes) <= 1

\* ----------------------------------------------------- claims on the export
\* C23: what the Authority exports for a cache refresh holds active
\* holders only.
C23_ExportHoldsActiveOnly ==
  refresh.pc # "idle" =>
    \A id \in Ids : refresh.new[id].exists => refresh.new[id].status = "active"

\* ----------------------------------------------------- claims on comparison
BothCompared == compare.done[1] /\ compare.done[2]

DifferAtDifferentPositions ==
  /\ Len(compare.token[1]) = Len(compare.expectedToken)
  /\ Len(compare.token[2]) = Len(compare.expectedToken)
  /\ FirstDifference(compare.token[1], compare.expectedToken) <=
       Len(compare.expectedToken)
  /\ FirstDifference(compare.token[2], compare.expectedToken) <=
       Len(compare.expectedToken)
  /\ FirstDifference(compare.token[1], compare.expectedToken) #
       FirstDifference(compare.token[2], compare.expectedToken)

\* C24: on every path, two comparisons against one expected signature whose
\* presented signatures first differ from it at different positions read the
\* same number of symbols.
C24_ComparisonIsConstantTime ==
  (BothCompared /\ DifferAtDifferentPositions) =>
    compare.steps[1] = compare.steps[2]

\* The part of C24 that holds: the Authority's comparison.
C24_AuthorityIsConstantTime ==
  (compare.path = "authority" /\ BothCompared /\ DifferAtDifferentPositions)
    => compare.steps[1] = compare.steps[2]

\* ------------------------------------------------------- claims on the frame
LocalVerificationStep == probe.path = "local" /\ ~probe.done /\ probe'.done

\* C25: a call of validateQROffline, whatever it returns, leaves every entry
\* of the cache and both queues of the device as they were.
C25_LocalVerificationReadsOnly ==
  [][LocalVerificationStep =>
       /\ cache' = cache
       /\ offlineScanQueue' = offlineScanQueue
       /\ syncQueue' = syncQueue]_vars

C25_Witness ==
  /\ probe.path = "local" /\ probe.done
  /\ ~probe.body.valid
  /\ probe.body.message = "Invalid QR token"
  /\ \E id \in Ids : cache[id].exists

ActiveChains ==
  Cardinality(timers) +
    Cardinality({c \in 1..Len(calls) : calls[c].origin = "loop"})

\* C28: at most one chain of the refresh loop is alive at a time, and once
\* stopQRRefresh has returned, with no startQRRefresh after it, the loop
\* produces no token and holds no timeout.
C28_RefreshStopsAndIsSingle ==
  /\ ActiveChains <= 1
  /\ stopped =>
       /\ timers = {}
       /\ \A g \in 1..Len(generated) : ~generated[g].afterStop

\* -------------------------------------------- claims on the local scan log
StoredEntries == {localScanLogs[l].n : l \in 1..Len(localScanLogs)}

\* The part of C29 on the flag: an entry is marked isSynced only if it was in
\* a request that the server answered with ok.
C29_MarkedOnlyWhenAnswered ==
  \A l \in 1..Len(localScanLogs) :
    localScanLogs[l].isSynced => localScanLogs[l].n \in answered

\* C29: an entry is marked isSynced only if it was in a request that the
\* server answered with ok, and every entry that logScanLocally wrote is
\* still in the list, whatever calls of syncScanLogs ran meanwhile.
C29_SyncKeepsEveryLoggedEntry ==
  /\ C29_MarkedOnlyWhenAnswered
  /\ StoredEntries = 1..logged

\* ----------------------------------------------------- claims on the retries
BetweenFlushes == ~isSyncing /\ syncRun = NoRun

C27_SameValidity ==
  (probe.path = "both" /\ probe.done) =>
    (probe.local.valid <=> probe.authority.valid)

\* The part of C27 on expiry.
C27_SameExpiry ==
  (probe.path = "both" /\ probe.done) =>
    (IncludesExpired(probe.local.message) <=>
       IncludesExpired(probe.authority.message))

\* C27: with the same holder record in the store and in the cache, the local
\* verifier answers valid exactly when the Authority does, and expired
\* exactly when the Authority does.
C27_PathsAgree ==
  (probe.path = "both" /\ probe.done) =>
    /\ probe.local.valid <=> probe.authority.valid
    /\ IncludesExpired(probe.local.message) <=>
         IncludesExpired(probe.authority.message)

====
